---------------------------- MODULE Spec2Model ----------------------------
(***************************************************************************)
(* DocuForge AI: the LangGraph pipeline (supervisor, router, stage agents, *)
(* verifier, reflection edge) and the Celery driver that runs it.          *)
(*                                                                         *)
(* Strings of the program are kept as short tags; a float score is the     *)
(* exact fraction num/den; Python's None is NoneVal (for the list field    *)
(* retrieved_chunks: the record PyNoneList).  External calls (file parser, *)
(* vector store, web search, LLM) are nondeterministic choices over the    *)
(* results the calling code distinguishes.                                 *)
(***************************************************************************)
EXTENDS Integers, Sequences, FiniteSets, TLC

(***************************************************************************)
(* Bounds of the model.                                                    *)
(***************************************************************************)
\* recursion_limit handed to graph.invoke (25000 in the driver), scaled down
RecursionLimit == 12
\* largest number of claim verdicts the judge returns
MaxClaims == 10
\* largest max_reflection_loops the configuration file holds
MaxLoopsCfg == 2
\* largest reflection_count of a state handed to the verifier directly
MaxReflectionCount == 3
\* number of writer attempts whose prompts are compared
MaxAttempts == 2

(***************************************************************************)
(* Program constants.                                                      *)
(***************************************************************************)
MinTextLen == 50
MinClaimsHard == 8
DefaultMinClaims == 8

NoneVal == "None"

\* retrieved_chunks: Optional list.  PyList(<<>>) is the empty list [].
PyNoneList == [is_none |-> TRUE, items |-> <<>>]
PyList(items) == [is_none |-> FALSE, items |-> items]

\* bool(x) of an Optional list: None and [] are falsy
ListTruthy(l) == (~l.is_none) /\ l.items /= <<>>

\* a strip that leaves the blank " " alone
Strip_KeepsBlank(s) == s

\* str.strip() on the tags: "" and the blank " " strip to ""
Strip(s) == IF s \in {"", " "} THEN "" ELSE s

\* exact fractions for the float scores
Frac(n, d) == [num |-> n, den |-> d]
FracLess(a, b) == a.num * b.den < b.num * a.den
FracEq(a, b) == a.num * b.den = b.num * a.den
OneMinus(a) == Frac(a.den - a.num, a.den)

VARIABLES
    state,          \* the DocuForgeState channels of the running graph
    cfg,            \* the "verifier" section of docuforge_config.yaml
    node,           \* the node the graph executes next ("END": finished)
    steps,          \* supersteps executed so far
    result,         \* what run_analysis_pipeline returns (status "running" before)
    routed,         \* the last value route_from_supervisor returned
    lastNode,       \* the node executed last
    lastDecision,   \* routing_decision of the last verifier update ("" if none)
    rcAtVerifier,   \* reflection_count the last verifier invocation read
    regenCount,     \* number of regenerate decisions so far
    runs,           \* how many times each node has executed
    vres,           \* path, verdicts and scorer result of the last verifier invocation
    errorReturned,  \* some stage agent has returned routing_decision "error"
    ranAfterError,  \* a stage agent executed after errorReturned
    endedVia,       \* "" | "done" | "error_handler" | "reflect" | "exception"
    prevTrace,      \* agent_trace before the node executed last ran
    prompts,        \* the prompts writer_agent has submitted, in order
    initial,        \* the state the driver created (the input of a call)
    mergeArgs,      \* the arguments of a merge_state_update call
    merged          \* what that call returned

vars == <<state, cfg, node, steps, result, routed, lastNode, lastDecision,
          rcAtVerifier, regenCount, runs, vres, errorReturned, ranAfterError,
          endedVia, prevTrace, prompts, initial, mergeArgs,
          merged>>

Fields == {"query", "uploaded_file_path", "file_format", "ingested_text",
           "retrieved_chunks", "web_context", "analysis_result", "draft_report",
           "verified_report", "hallucination_score", "faithfulness_score",
           "routing_decision", "reflection_count", "agent_trace", "error_log",
           "session_id"}

\* Annotated[list[str], operator.add]
AppendFields == {"agent_trace", "error_log"}

\* The channel update LangGraph applies to a node's partial update u: a field
\* annotated with operator.add becomes old + update, any other field is
\* overwritten, a field u does not hold keeps its value.
GraphMerge(s, u) ==
    [f \in Fields |->
        IF f \in DOMAIN u
        THEN IF f \in AppendFields THEN s[f] \o u[f] ELSE u[f]
        ELSE s[f]]

EmptyUpdate == [f \in {} |-> 0]

(***************************************************************************)
(* Router                                                                  *)
(***************************************************************************)
\* the router sending a state with text but no chunks back to ingestion
route_from_supervisor_ReIngests(s) ==
    IF s.routing_decision = "error" THEN "error_handler"
    ELSE IF s.ingested_text = "" THEN "ingestion_agent"
    ELSE IF s.retrieved_chunks.is_none \/ s.retrieved_chunks = PyList(<<>>)
         THEN "ingestion_agent"
    ELSE IF s.routing_decision = "needs_research" THEN "research_agent"
    ELSE IF s.analysis_result = NoneVal THEN "analyst_agent"
    ELSE IF s.draft_report = "" THEN "writer_agent"
    ELSE IF s.verified_report = "" THEN "verifier_agent"
    ELSE "done"

\* the router without the rule that sends an unanalysed state to the analyst
route_from_supervisor_SkipsAnalysis(s) ==
    IF s.routing_decision = "error" THEN "error_handler"
    ELSE IF s.ingested_text = "" THEN "ingestion_agent"
    ELSE IF s.retrieved_chunks.is_none \/ s.retrieved_chunks = PyList(<<>>)
         THEN "rag_agent"
    ELSE IF s.routing_decision = "needs_research" THEN "research_agent"
    ELSE IF s.draft_report = "" THEN "writer_agent"
    ELSE IF s.verified_report = "" THEN "verifier_agent"
    ELSE "done"

route_from_supervisor(s) ==
    IF s.routing_decision = "error" THEN "error_handler"
    ELSE IF s.ingested_text = "" THEN "ingestion_agent"
    ELSE IF s.retrieved_chunks.is_none \/ s.retrieved_chunks = PyList(<<>>)
         THEN "rag_agent"
    ELSE IF s.routing_decision = "needs_research" THEN "research_agent"
    ELSE IF s.analysis_result = NoneVal THEN "analyst_agent"
    ELSE IF s.draft_report = "" THEN "writer_agent"
    ELSE IF s.verified_report = "" THEN "verifier_agent"
    ELSE "done"

should_reflect(s, c) ==
    IF s.reflection_count >= c.max_reflection_loops THEN "done" ELSE "done"

(***************************************************************************)
(* Supervisor                                                              *)
(***************************************************************************)
\* str.lower() on the words of a query
Lower(w) == IF w = "Market" THEN "market" ELSE w

research_keywords ==
    {"industry", "market", "competitor", "trend", "benchmark", "external",
     "current"}

\* any(keyword in query.lower() ...): a query is a sequence of words
NeedsResearch(q) == \E i \in 1..Len(q) : Lower(q[i]) \in research_keywords

supervisor_agent(s) ==
    IF s.routing_decision = "error" THEN EmptyUpdate
    ELSE LET rd == IF NeedsResearch(s.query) THEN "needs_research" ELSE "continue"
         IN [routing_decision |-> rd,
             agent_trace |-> <<"supervisor_agent: routing decision">>]


(***************************************************************************)
(* Ingestion                                                               *)
(***************************************************************************)
\* what ingest_file can hand back: nothing, a few characters, a document
IngestTexts == {"", "tiny", "DOCUMENT"}

\* len(text.strip())
StrippedLen(t) ==
    IF Strip(t) = "" THEN 0 ELSE IF t = "tiny" THEN 4 ELSE MinTextLen + 10

\* file_path.split(".")[-1].lower()
FormatOf(path) == IF path = "report.PDF" THEN "pdf" ELSE path

IngestionError(tag) ==
    [error_log |-> <<tag>>,
     routing_decision |-> "error",
     agent_trace |-> <<"ingestion_agent: error">>]

\* ingestion that also writes the lower-cased path back to uploaded_file_path
IngestFile_RewritesPath(s) ==
        {IngestionError("File validation failed")}
    \cup {IngestionError("Ingestion failed")}
    \cup {IF t = "" \/ StrippedLen(t) < MinTextLen
          THEN IngestionError("Extracted text too small")
          ELSE [ingested_text |-> t,
                file_format |-> FormatOf(s.uploaded_file_path),
                uploaded_file_path |-> "report.pdf",
                agent_trace |-> <<"ingestion_agent: parsed file">>,
                routing_decision |-> "rag"]
          : t \in IngestTexts}

\* ingestion_agent once a file path is given (validate_file did not raise)
IngestFile(s) ==
        \* validate_file: (False, reason)
        {IngestionError("File validation failed")}
    \cup \* ingest_file raises
        {IngestionError("Ingestion failed")}
    \cup \* ingest_file returns text
        {IF t = "" \/ StrippedLen(t) < MinTextLen
         THEN IngestionError("Extracted text too small")
         ELSE [ingested_text |-> t,
               file_format |-> FormatOf(s.uploaded_file_path),
               agent_trace |-> <<"ingestion_agent: parsed file">>,
               routing_decision |-> "rag"]
         : t \in IngestTexts}

\* ingestion_agent with the error entry left out of its no-file-path update
ingestion_agent_NoErrorEntry(s) ==
    IF s.uploaded_file_path = ""
    THEN {[routing_decision |-> "error",
           agent_trace |-> <<"ingestion_agent: error">>]}
    ELSE IngestFile(s)

\* the updates ingestion_agent can return
ingestion_agent(s) ==
    IF s.uploaded_file_path = ""
    THEN {IngestionError("No file path provided in state")}
    ELSE IngestFile(s)

(***************************************************************************)
(* Retrieval                                                               *)
(***************************************************************************)
\* what compute_hybrid_retrieval can hand back (its last fallback returns [])
RetrievalResults == {<<>>, <<"chunk one">>, <<"chunk one", "chunk two">>}

\* rag_agent with no error_log entry in its chunking-failure update
rag_agent_ChunkFailSilent(s) ==
    IF ListTruthy(s.retrieved_chunks)
    THEN {[routing_decision |-> "analyst",
           agent_trace |-> <<"rag_agent: skipped (already processed)">>]}
    ELSE IF Strip(s.ingested_text) = ""
    THEN {[error_log |-> <<"No ingested text available for RAG">>,
           routing_decision |-> "error",
           agent_trace |-> <<"rag_agent: error - no ingested text">>]}
    ELSE    {[retrieved_chunks |-> PyList(<<>>),
              routing_decision |-> "error",
              agent_trace |-> <<"rag_agent: chunking failed">>]}
         \cup
            {[error_log |-> <<"RAG pipeline failed">>,
              routing_decision |-> "error",
              agent_trace |-> <<"rag_agent: RAG pipeline failed">>]}
         \cup
            {[retrieved_chunks |-> PyList(r),
              agent_trace |-> <<"rag_agent: chunked and retrieved">>,
              routing_decision |-> "analyst"]
             : r \in RetrievalResults}

rag_agent(s) ==
    IF ListTruthy(s.retrieved_chunks)
    THEN {[routing_decision |-> "analyst",
           agent_trace |-> <<"rag_agent: skipped (already processed)">>]}
    ELSE IF Strip(s.ingested_text) = ""
    THEN {[error_log |-> <<"No ingested text available for RAG">>,
           routing_decision |-> "error",
           agent_trace |-> <<"rag_agent: error - no ingested text">>]}
    ELSE    \* chunk_document returns no documents
            {[retrieved_chunks |-> PyList(<<>>),
              error_log |-> <<"Failed to chunk document">>,
              routing_decision |-> "error",
              agent_trace |-> <<"rag_agent: chunking failed">>]}
         \cup \* the vector store or the retrieval raises
            {[error_log |-> <<"RAG pipeline failed">>,
              routing_decision |-> "error",
              agent_trace |-> <<"rag_agent: RAG pipeline failed">>]}
         \cup
            {[retrieved_chunks |-> PyList(r),
              agent_trace |-> <<"rag_agent: chunked and retrieved">>,
              routing_decision |-> "analyst"]
             : r \in RetrievalResults}

(***************************************************************************)
(* Research                                                                *)
(***************************************************************************)
research_agent(s) ==
    IF s.query = <<>>
    THEN {[web_context |-> "",
           agent_trace |-> s.agent_trace \o <<"research_agent: skipped (no query)">>,
           routing_decision |-> "analyst"]}
    ELSE    {[web_context |-> "WEB RESULTS",
              agent_trace |-> s.agent_trace \o <<"research_agent: fetched external context">>,
              routing_decision |-> "analyst"]}
         \cup \* a search raises
            {[web_context |-> "",
              agent_trace |-> s.agent_trace \o <<"research_agent: error">>,
              routing_decision |-> "analyst"]}

(***************************************************************************)
(* Analysis                                                                *)
(***************************************************************************)
\* an analyst update that holds no trace entry
AnalystUpdate_NoTrace(s, summary, tag) ==
    [analysis_result |-> summary,
     agent_trace |-> <<>>,
     routing_decision |-> "writer"]

AnalystUpdate(s, summary, tag) ==
    [analysis_result |-> summary,
     agent_trace |-> s.agent_trace \o <<tag>>,
     routing_decision |-> "writer"]

analyst_agent(s) ==
    IF ~ListTruthy(s.retrieved_chunks)
    THEN {AnalystUpdate(s, "No data available for analysis.",
                        "analyst_agent: no retrieved chunks")}
    ELSE {AnalystUpdate(s, "Document analysis complete.",
                        "analyst_agent: text-only doc, LLM skipped"),
          AnalystUpdate(s, "Quantitative analysis skipped (API quota reached).",
                        "analyst_agent: quota exhausted, fallback used"),
          AnalystUpdate(s, "Document analysis: raw response",
                        "analyst_agent: used raw LLM summary (JSON parse fallback)"),
          AnalystUpdate(s, "Analysis complete.",
                        "analyst_agent: computed metrics"),
          AnalystUpdate(s, "Analysis error",
                        "analyst_agent: error")}

(***************************************************************************)
(* Writer                                                                  *)
(***************************************************************************)
\* the trace entries the driver starts a run with
PipelineEntries == {"pipeline: using prompt version v1",
                    "pipeline: using prompt version v3"}

\* entry.split()[-1]
LastWord(entry) ==
    IF entry = "pipeline: using prompt version v1" THEN "v1" ELSE "v3"

\* _get_prompt_version_from_trace: the version named by the first pipeline
\* entry of the trace, "v3" when there is none
get_prompt_version_from_trace(agent_trace) ==
    LET hits == {i \in 1..Len(agent_trace) : agent_trace[i] \in PipelineEntries}
    IN  IF hits = {} THEN "v3"
        ELSE LastWord(agent_trace[CHOOSE i \in hits : \A j \in hits : i <= j])

\* the prompt writer_agent hands to llm.invoke: the template of the version
\* with query, document_context (built from the chunks and the ingested
\* text), analysis_summary and web_context filled in
writer_prompt(s) ==
    [template |-> get_prompt_version_from_trace(s.agent_trace),
     query |-> s.query,
     document_context |->
        [chunks |-> IF ListTruthy(s.retrieved_chunks)
                    THEN s.retrieved_chunks.items ELSE <<>>,
         full_text |-> s.ingested_text],
     analysis_summary |->
        IF s.analysis_result = NoneVal
        THEN "No quantitative analysis performed." ELSE s.analysis_result,
     web_context |-> IF s.web_context = "" THEN "None" ELSE s.web_context]

WriterUpdate(s, draft, tag) ==
    [draft_report |-> draft,
     agent_trace |-> s.agent_trace \o <<tag>>,
     routing_decision |-> "verifier",
     reflection_count |-> s.reflection_count]

\* writer_agent whose except branch hands back an empty draft and error
writer_agent_ErrorOnException(s) ==
    {WriterUpdate(s, "Report generation skipped: upstream analysis yielded no actionable content.",
                  "writer_agent: skipped due to upstream failure"),
     WriterUpdate(s, "{structured report}",
                  "writer_agent: generated structured report"),
     WriterUpdate(s, "raw response text",
                  "writer_agent: generated structured report"),
     WriterUpdate(s, " ",
                  "writer_agent: generated structured report"),
     [draft_report |-> "",
      agent_trace |-> s.agent_trace \o <<"writer_agent: error">>,
      routing_decision |-> "error",
      reflection_count |-> s.reflection_count]}

\* the completion is empty or an error text; is a report in JSON; cannot be
\* parsed (the raw text is kept, cut to 2000 characters, which may all be
\* white space); or the call raises
writer_agent(s) ==
    {WriterUpdate(s, "Report generation skipped: upstream analysis yielded no actionable content.",
                  "writer_agent: skipped due to upstream failure"),
     WriterUpdate(s, "{structured report}",
                  "writer_agent: generated structured report"),
     WriterUpdate(s, "raw response text",
                  "writer_agent: generated structured report"),
     WriterUpdate(s, " ",
                  "writer_agent: generated structured report"),
     WriterUpdate(s, "Error generating report",
                  "writer_agent: error")}


(***************************************************************************)
(* Verifier                                                                *)
(***************************************************************************)
\* claim_verdicts the judge can return: n claims, the first k supported
VerdictLists ==
    {[i \in 1..n |-> IF i <= k THEN 1 ELSE 0] : <<n, k>> \in
        {p \in (0..MaxClaims) \X (0..MaxClaims) : p[2] <= p[1]}}

RECURSIVE SumSeq(_)
SumSeq(q) == IF q = <<>> THEN 0 ELSE Head(q) + SumSeq(Tail(q))

FaithResult(score, reject, count) ==
    [score |-> score, reject_for_insufficient_claims |-> reject,
     claim_count |-> count]

\* the scorer dividing the number of unsupported claims by the claim count
compute_faithfulness_score_Unsupported(report, source_chunks) ==
    IF Strip(report) = ""
    THEN {[path |-> "blank", verdicts |-> <<>>,
           result |-> FaithResult(Frac(0, 1), FALSE, 0)]}
    ELSE IF ~ListTruthy(source_chunks)
    THEN {[path |-> "no_source", verdicts |-> <<>>,
           result |-> FaithResult(Frac(7, 10), FALSE, 0)]}
    ELSE    {IF Len(verdicts) < MinClaimsHard
             THEN [path |-> "insufficient", verdicts |-> verdicts,
                   result |-> FaithResult(Frac(0, 1), TRUE, Len(verdicts))]
             ELSE [path |-> "faithfulness", verdicts |-> verdicts,
                   result |-> FaithResult(Frac(Len(verdicts) - SumSeq(verdicts),
                                               Len(verdicts)),
                                          FALSE, Len(verdicts))]
             : verdicts \in VerdictLists}
         \cup {[path |-> "extraction_failed", verdicts |-> <<>>,
                result |-> FaithResult(Frac(1, 2), FALSE, 0)]}

\* the scorer answering an extraction failure with score 0.0
compute_faithfulness_score_FailureZero(report, source_chunks) ==
    IF Strip(report) = ""
    THEN {[path |-> "blank", verdicts |-> <<>>,
           result |-> FaithResult(Frac(0, 1), FALSE, 0)]}
    ELSE IF ~ListTruthy(source_chunks)
    THEN {[path |-> "no_source", verdicts |-> <<>>,
           result |-> FaithResult(Frac(7, 10), FALSE, 0)]}
    ELSE    {IF Len(verdicts) < MinClaimsHard
             THEN [path |-> "insufficient", verdicts |-> verdicts,
                   result |-> FaithResult(Frac(0, 1), TRUE, Len(verdicts))]
             ELSE [path |-> "faithfulness", verdicts |-> verdicts,
                   result |-> FaithResult(Frac(SumSeq(verdicts), Len(verdicts)),
                                          FALSE, Len(verdicts))]
             : verdicts \in VerdictLists}
         \cup {[path |-> "extraction_failed", verdicts |-> <<>>,
                result |-> FaithResult(Frac(0, 1), FALSE, 0)]}

\* a way through _compute_faithfulness_score: the return statement taken,
\* the claim_verdicts the judge gave (<<>> if none were read), the result
ScorerReturn(path, verdicts, res) ==
    [path |-> path, verdicts |-> verdicts, result |-> res]

\* the ways through _compute_faithfulness_score
compute_faithfulness_score(report, source_chunks) ==
    IF Strip(report) = ""
    THEN {ScorerReturn("blank", <<>>, FaithResult(Frac(0, 1), FALSE, 0))}
    ELSE IF ~ListTruthy(source_chunks)
    THEN {ScorerReturn("no_source", <<>>, FaithResult(Frac(7, 10), FALSE, 0))}
    ELSE    {IF Len(verdicts) < MinClaimsHard
             THEN ScorerReturn("insufficient", verdicts,
                               FaithResult(Frac(0, 1), TRUE, Len(verdicts)))
             ELSE ScorerReturn("faithfulness", verdicts,
                               FaithResult(Frac(SumSeq(verdicts), Len(verdicts)),
                                           FALSE, Len(verdicts)))
             : verdicts \in VerdictLists}
         \cup \* the judge call raises, or its response holds no JSON
            {ScorerReturn("extraction_failed", <<>>,
                          FaithResult(Frac(1, 2), FALSE, 0))}

\* the decision block with the reflection budget compared by <=
VerifierDecision_OffByOne(faith, s, c) ==
    IF faith.reject_for_insufficient_claims
       /\ s.reflection_count <= c.max_reflection_loops
    THEN "regenerate"
    ELSE IF FracLess(faith.score, c.min_faithfulness_score)
            /\ s.reflection_count <= c.max_reflection_loops
    THEN "regenerate"
    ELSE "done"

\* the decision block with no budget test on the insufficient-claims branch
VerifierDecision_RejectUnbounded(faith, s, c) ==
    IF faith.reject_for_insufficient_claims
    THEN "regenerate"
    ELSE IF FracLess(faith.score, c.min_faithfulness_score)
            /\ s.reflection_count < c.max_reflection_loops
    THEN "regenerate"
    ELSE "done"

\* the decision block of verifier_agent
VerifierDecision(faith, s, c) ==
    IF faith.reject_for_insufficient_claims
       /\ s.reflection_count < c.max_reflection_loops
    THEN "regenerate"
    ELSE IF FracLess(faith.score, c.min_faithfulness_score)
            /\ s.reflection_count < c.max_reflection_loops
    THEN "regenerate"
    ELSE "done"

\* the scored update with the faithfulness score copied to hallucination_score
VerifierScored_SameScore(faith, s, c) ==
    [verified_report |-> s.draft_report,
     faithfulness_score |-> faith.score,
     hallucination_score |-> faith.score,
     routing_decision |-> VerifierDecision(faith, s, c),
     agent_trace |-> s.agent_trace \o <<"verifier_agent: scored">>]

\* the update built from a scorer result: verified_report is the draft in
\* all three branches of the decision block
VerifierScored(faith, s, c) ==
    [verified_report |-> s.draft_report,
     faithfulness_score |-> faith.score,
     hallucination_score |-> OneMinus(faith.score),
     routing_decision |-> VerifierDecision(faith, s, c),
     agent_trace |-> s.agent_trace \o <<"verifier_agent: scored">>]

\* the ways through verifier_agent: the path taken, the scorer's result on
\* the scored path, and the update returned
VerifierOutcomes(s, c) ==
    IF Strip(s.draft_report) = ""
    THEN {[path |-> "empty", scorer |-> "", verdicts |-> <<>>,
           faith |-> FaithResult(Frac(0, 1), FALSE, 0),
           update |->
             [verified_report |-> "Analysis could not be completed for this document.",
              faithfulness_score |-> Frac(0, 1),
              hallucination_score |-> Frac(1, 1),
              agent_trace |-> s.agent_trace \o <<"verifier_agent: empty draft">>,
              routing_decision |-> "done"]]}
    ELSE    {[path |-> "scored", scorer |-> r.path, verdicts |-> r.verdicts,
              faith |-> r.result,
              update |-> VerifierScored(r.result, s, c)]
             : r \in compute_faithfulness_score(s.draft_report, s.retrieved_chunks)}
         \cup \* get_llm raises: the verifier's own except branch
            {[path |-> "error", scorer |-> "", verdicts |-> <<>>,
              faith |-> FaithResult(Frac(1, 2), FALSE, 0),
              update |->
                [verified_report |-> s.draft_report,
                 faithfulness_score |-> Frac(1, 2),
                 hallucination_score |-> Frac(1, 2),
                 agent_trace |-> s.agent_trace \o <<"verifier_agent: error">>,
                 routing_decision |-> "done"]]}

verifier_agent(s, c) == {o.update : o \in VerifierOutcomes(s, c)}

(***************************************************************************)
(* Error handler node                                                      *)
(***************************************************************************)
create_error_handler(s) == [routing_decision |-> "error"]

(***************************************************************************)
(* Driver: run_analysis_pipeline                                           *)
(***************************************************************************)
Queries == {<<>>, <<"what">>, <<"what", "Market">>}
FilePaths == {"", "report.PDF"}

Configs ==
    [min_faithfulness_score : {Frac(17, 20), Frac(4, 5)},
     max_reflection_loops : 0..MaxLoopsCfg,
     min_claims_to_verify : {DefaultMinClaims, 5}]

initial_state(query, file_path, session_id) ==
    [query |-> query,
     uploaded_file_path |-> file_path,
     file_format |-> "",
     ingested_text |-> "",
     retrieved_chunks |-> PyList(<<>>),
     web_context |-> "",
     analysis_result |-> NoneVal,
     draft_report |-> "",
     verified_report |-> "",
     hallucination_score |-> Frac(0, 1),
     faithfulness_score |-> Frac(0, 1),
     routing_decision |-> "",
     reflection_count |-> 0,
     agent_trace |-> <<"pipeline: using prompt version v3">>,
     error_log |-> <<>>,
     session_id |-> session_id]

Running ==
    [status |-> "running", verified_report |-> "", agent_trace |-> <<>>,
     error_log |-> <<>>, faithfulness_score |-> Frac(0, 1),
     hallucination_score |-> Frac(0, 1)]

\* the result built after graph.invoke returned
SuccessResult(final) ==
    [status |-> IF final.error_log = <<>> THEN "success" ELSE "partial_success",
     verified_report |-> IF final.verified_report /= "" THEN final.verified_report
                         ELSE final.draft_report,
     agent_trace |-> final.agent_trace,
     error_log |-> final.error_log,
     faithfulness_score |-> final.faithfulness_score,
     hallucination_score |-> final.hallucination_score]

\* the result of the driver's except branch
FailedResult ==
    [status |-> "failed", verified_report |-> "", agent_trace |-> <<>>,
     error_log |-> <<"exception">>, faithfulness_score |-> Frac(0, 1),
     hallucination_score |-> Frac(0, 1)]

GraphNodes == {"supervisor", "ingestion_agent", "rag_agent", "research_agent",
               "analyst_agent", "writer_agent", "verifier_agent", "error_handler"}

HistoryInit ==
    /\ steps = 0
    /\ result = Running
    /\ routed = ""
    /\ lastNode = ""
    /\ lastDecision = ""
    /\ rcAtVerifier = 0
    /\ regenCount = 0
    /\ runs = [n \in GraphNodes |-> 0]
    /\ vres = [path |-> "", scorer |-> "", verdicts |-> <<>>,
               faith |-> FaithResult(Frac(0, 1), FALSE, 0)]
    /\ errorReturned = FALSE
    /\ ranAfterError = FALSE
    /\ endedVia = ""
    /\ prevTrace = <<>>
    /\ prompts = <<>>

\* no merge_state_update call is under way
MergeIdle ==
    /\ mergeArgs = [current |-> EmptyUpdate, update |-> EmptyUpdate]
    /\ merged = [status |-> "", value |-> EmptyUpdate, current |-> EmptyUpdate]

Init ==
    /\ \E q \in Queries, p \in FilePaths :
          state = initial_state(q, p, "session-1")
    /\ initial = state
    /\ cfg \in Configs
    /\ node = "supervisor"
    /\ HistoryInit
    /\ MergeIdle

CanStep(n) == node = n /\ steps < RecursionLimit /\ result.status = "running"

ReturnsError(u) ==
    "routing_decision" \in DOMAIN u /\ u["routing_decision"] = "error"

\* a stage node with a plain edge back to the supervisor
StageStep(n, updates) ==
    /\ CanStep(n)
    /\ \E u \in updates :
          /\ state' = GraphMerge(state, u)
          /\ errorReturned' = (errorReturned \/ ReturnsError(u))
    /\ node' = "supervisor"
    /\ steps' = steps + 1
    /\ lastNode' = n
    /\ runs' = [runs EXCEPT ![n] = @ + 1]
    /\ ranAfterError' = (ranAfterError \/ errorReturned)
    /\ prevTrace' = state.agent_trace
    /\ UNCHANGED <<prompts, initial, mergeArgs, merged, cfg, result, routed, lastDecision, rcAtVerifier, regenCount,
                   vres, endedVia>>

SupervisorStep ==
    /\ CanStep("supervisor")
    /\ state' = GraphMerge(state, supervisor_agent(state))
    /\ routed' = route_from_supervisor(state')
    /\ node' = IF routed' = "done" THEN "END" ELSE routed'
    /\ endedVia' = IF routed' = "done" THEN "done" ELSE endedVia
    /\ steps' = steps + 1
    /\ lastNode' = "supervisor"
    /\ runs' = [runs EXCEPT !["supervisor"] = @ + 1]
    /\ prevTrace' = state.agent_trace
    /\ UNCHANGED <<prompts, initial, mergeArgs, merged, cfg, result, lastDecision, rcAtVerifier, regenCount,
                   vres, errorReturned, ranAfterError>>

IngestionStep == StageStep("ingestion_agent", ingestion_agent(state))

RagStep == StageStep("rag_agent", rag_agent(state))

ResearchStep == StageStep("research_agent", research_agent(state))

AnalystStep == StageStep("analyst_agent", analyst_agent(state))

WriterStep ==
    /\ CanStep("writer_agent")
    /\ \E u \in writer_agent(state) :
          /\ state' = GraphMerge(state, u)
          /\ errorReturned' = (errorReturned \/ ReturnsError(u))
    /\ node' = "verifier_agent"
    /\ steps' = steps + 1
    /\ lastNode' = "writer_agent"
    /\ runs' = [runs EXCEPT !["writer_agent"] = @ + 1]
    /\ ranAfterError' = (ranAfterError \/ errorReturned)
    /\ prevTrace' = state.agent_trace
    /\ prompts' = Append(prompts, writer_prompt(state))
    /\ UNCHANGED <<initial, mergeArgs, merged, cfg, result, routed, lastDecision, rcAtVerifier, regenCount,
                   vres, endedVia>>

VerifierStep ==
    /\ CanStep("verifier_agent")
    /\ \E o \in VerifierOutcomes(state, cfg) :
          /\ state' = GraphMerge(state, o.update)
          /\ errorReturned' = (errorReturned \/ ReturnsError(o.update))
          /\ lastDecision' = o.update.routing_decision
          /\ regenCount' = regenCount
                + (IF o.update.routing_decision = "regenerate" THEN 1 ELSE 0)
          /\ vres' = [path |-> o.path, scorer |-> o.scorer,
                       verdicts |-> o.verdicts, faith |-> o.faith]
    /\ rcAtVerifier' = state.reflection_count
    /\ node' = IF should_reflect(state', cfg) = "writer_agent"
               THEN "writer_agent" ELSE "END"
    /\ endedVia' = IF node' = "END" THEN "reflect" ELSE endedVia
    /\ steps' = steps + 1
    /\ lastNode' = "verifier_agent"
    /\ runs' = [runs EXCEPT !["verifier_agent"] = @ + 1]
    /\ ranAfterError' = (ranAfterError \/ errorReturned)
    /\ prevTrace' = state.agent_trace
    /\ UNCHANGED <<prompts, initial, mergeArgs, merged, cfg, result, routed>>

ErrorHandlerStep ==
    /\ CanStep("error_handler")
    /\ state' = GraphMerge(state, create_error_handler(state))
    /\ node' = "END"
    /\ endedVia' = "error_handler"
    /\ steps' = steps + 1
    /\ lastNode' = "error_handler"
    /\ runs' = [runs EXCEPT !["error_handler"] = @ + 1]
    /\ prevTrace' = state.agent_trace
    /\ UNCHANGED <<prompts, initial, mergeArgs, merged, cfg, result, routed, lastDecision, rcAtVerifier, regenCount,
                   vres, errorReturned, ranAfterError>>

\* graph.invoke raises GraphRecursionError: recursion_limit supersteps ran
\* and the graph has not reached END; the driver's except branch returns
GraphRecursionError ==
    /\ node \in GraphNodes
    /\ steps = RecursionLimit
    /\ result.status = "running"
    /\ result' = FailedResult
    /\ endedVia' = "exception"
    /\ UNCHANGED <<prevTrace, prompts, initial, mergeArgs, merged, state, cfg, node, steps, routed, lastNode, lastDecision,
                   rcAtVerifier, regenCount, runs, vres, errorReturned,
                   ranAfterError>>

\* validate_file is called outside ingestion_agent's try block: what it
\* raises leaves graph.invoke and reaches the driver's except branch
ValidateFileRaises ==
    /\ CanStep("ingestion_agent")
    /\ state.uploaded_file_path /= ""
    /\ result' = FailedResult
    /\ endedVia' = "exception"
    /\ lastNode' = "ingestion_agent"
    /\ UNCHANGED <<prevTrace, prompts, initial, mergeArgs, merged, state, cfg, node, steps, routed, lastDecision, rcAtVerifier,
                   regenCount, runs, vres, errorReturned, ranAfterError>>

\* graph.invoke returned the final state
DriverReturn ==
    /\ node = "END"
    /\ result.status = "running"
    /\ result' = SuccessResult(state)
    /\ UNCHANGED <<prevTrace, prompts, initial, mergeArgs, merged, state, cfg, node, steps, routed, lastNode, lastDecision,
                   rcAtVerifier, regenCount, runs, vres, errorReturned,
                   ranAfterError, endedVia>>

Next ==
    \/ SupervisorStep
    \/ IngestionStep
    \/ RagStep
    \/ ResearchStep
    \/ AnalystStep
    \/ WriterStep
    \/ VerifierStep
    \/ ErrorHandlerStep
    \/ GraphRecursionError
    \/ ValidateFileRaises
    \/ DriverReturn

Spec == Init /\ [][Next]_vars


(***************************************************************************)
(* route_from_supervisor as a function: called on any state                *)
(***************************************************************************)
RouterInputs ==
    {[initial_state(<<"what">>, "report.PDF", "session-1") EXCEPT
        !.routing_decision = rd, !.ingested_text = txt,
        !.retrieved_chunks = ch, !.analysis_result = an,
        !.draft_report = dr, !.verified_report = vr]
     : rd \in {"", "continue", "needs_research", "error", "regenerate", "done"},
       txt \in {"", "DOCUMENT"},
       ch \in {PyNoneList, PyList(<<>>), PyList(<<"chunk one">>)},
       an \in {NoneVal, "Analysis complete."},
       dr \in {"", "{structured report}"},
       vr \in {"", "{structured report}"}}

InitRoute ==
    /\ state \in RouterInputs
    /\ cfg \in Configs
    /\ node = "route_call"
    /\ initial = state
    /\ HistoryInit
    /\ MergeIdle

RouteCall ==
    /\ node = "route_call"
    /\ routed' = route_from_supervisor(state)
    /\ node' = "route_returned"
    /\ UNCHANGED <<prevTrace, prompts, initial, mergeArgs, merged, state, cfg, steps, result, lastNode, lastDecision,
                   rcAtVerifier, regenCount, runs, vres, errorReturned,
                   ranAfterError, endedVia>>

SpecRoute == InitRoute /\ [][RouteCall]_vars

(***************************************************************************)
(* The writer -> verifier -> should_reflect part of the graph, entered     *)
(* with any state                                                          *)
(***************************************************************************)
VerifierInputs ==
    {[initial_state(<<"what">>, "report.PDF", "session-1") EXCEPT
        !.ingested_text = "DOCUMENT", !.analysis_result = "Analysis complete.",
        !.routing_decision = "continue",
        !.retrieved_chunks = ch, !.draft_report = dr, !.reflection_count = rc]
     : ch \in {PyNoneList, PyList(<<>>), PyList(<<"chunk one">>)},
       dr \in {"", " ", "{structured report}"},
       rc \in 0..MaxReflectionCount}

InitVerifier ==
    /\ state \in VerifierInputs
    /\ cfg \in Configs
    /\ node \in {"writer_agent", "verifier_agent"}
    /\ initial = state
    /\ HistoryInit
    /\ MergeIdle

NextVerifier == WriterStep \/ VerifierStep

SpecVerifier == InitVerifier /\ [][NextVerifier]_vars

(***************************************************************************)
(* merge_state_update as a function: called on any state and any partial   *)
(* update.  Here agent_trace and error_log hold Optional lists (PyList /   *)
(* PyNoneList), so that an update can carry None under these keys.         *)
(***************************************************************************)
\* dict.get(key, default)
DictGet(d, k, default) == IF k \in DOMAIN d THEN d[k] ELSE default

\* isinstance(value, list) for a value under agent_trace or error_log
IsInstanceList(v) == ~v.is_none

\* a merge that applies the update to the append-only fields alone
merge_state_update_AppendOnly(current, update) ==
    [k \in DOMAIN current |->
        IF k \in DOMAIN update /\ k \in AppendFields /\ IsInstanceList(update[k])
        THEN PyList(current[k].items \o update[k].items)
        ELSE current[k]]

\* merged = current.copy(), then one assignment to merged per key of update
merge_state_update(current, update) ==
    [k \in DOMAIN current \cup DOMAIN update |->
        IF k \in DOMAIN update
        THEN IF k = "agent_trace" /\ IsInstanceList(update[k])
             THEN PyList(DictGet(current, "agent_trace", PyList(<<>>)).items
                         \o update[k].items)
             ELSE IF k = "error_log" /\ IsInstanceList(update[k])
             THEN PyList(DictGet(current, "error_log", PyList(<<>>)).items
                         \o update[k].items)
             ELSE update[k]
        ELSE current[k]]

\* the states handed to merge_state_update
MergeStates ==
    {[initial_state(<<"what">>, "report.PDF", "session-1") EXCEPT
        !.agent_trace = PyList(tr), !.error_log = PyList(el),
        !.draft_report = dr, !.routing_decision = rd]
     : tr \in {<<>>, <<"supervisor: continue">>,
               <<"supervisor: continue", "ingestion_agent: parsed file">>},
       el \in {<<>>, <<"Ingestion failed">>},
       dr \in {"", "{structured report}"},
       rd \in {"", "continue"}}

\* the values an update can hold under a key; "debug_flag" is no field of
\* DocuForgeState
UpdateTraces == <<PyNoneList, PyList(<<>>), PyList(<<"writer_agent: error">>)>>
UpdateErrors == <<PyNoneList, PyList(<<"Failed to chunk document">>)>>
UpdateDrafts == <<"", "raw response text">>
UpdateDecisions == <<"done">>
UpdateUnknown == <<"on">>

\* the i-th value under key k, or no entry for k when i = 0
UpdateEntry(k, vals, i) == IF i = 0 THEN EmptyUpdate ELSE k :> vals[i]

\* the partial updates handed to merge_state_update
MergeUpdates ==
    {UpdateEntry("agent_trace", UpdateTraces, a)
        @@ UpdateEntry("error_log", UpdateErrors, e)
        @@ UpdateEntry("draft_report", UpdateDrafts, d)
        @@ UpdateEntry("routing_decision", UpdateDecisions, r)
        @@ UpdateEntry("debug_flag", UpdateUnknown, x)
     : a \in 0..Len(UpdateTraces), e \in 0..Len(UpdateErrors),
       d \in 0..Len(UpdateDrafts), r \in 0..Len(UpdateDecisions),
       x \in 0..Len(UpdateUnknown)}

InitMerge ==
    /\ state = initial_state(<<"what">>, "report.PDF", "session-1")
    /\ initial = state
    /\ cfg = [min_faithfulness_score |-> Frac(17, 20), max_reflection_loops |-> 0,
              min_claims_to_verify |-> DefaultMinClaims]
    /\ node = "merge_call"
    /\ HistoryInit
    /\ \E s \in MergeStates, u \in MergeUpdates :
          mergeArgs = [current |-> s, update |-> u]
    /\ merged = [status |-> "", value |-> EmptyUpdate, current |-> EmptyUpdate]

\* one call: the value returned, and the dict passed as current after the call
MergeCall ==
    /\ node = "merge_call"
    /\ merged' = [status |-> "returned",
                  value |-> merge_state_update(mergeArgs.current, mergeArgs.update),
                  current |-> mergeArgs.current]
    /\ node' = "merge_returned"
    /\ UNCHANGED <<state, cfg, steps, result, routed, lastNode, lastDecision,
                   rcAtVerifier, regenCount, runs, vres, errorReturned,
                   ranAfterError, endedVia, prevTrace, prompts, initial,
                   mergeArgs>>

SpecMerge == InitMerge /\ [][MergeCall]_vars

(***************************************************************************)
(* writer_agent called on a state and then on the state of the next        *)
(* reflection iteration: the same run data, the report fields overwritten  *)
(* by the writer and the verifier, reflection_count one higher.            *)
(***************************************************************************)
PromptInputs ==
    VerifierInputs
    \cup {[s EXCEPT !.agent_trace = <<"pipeline: using prompt version v1">>]
          : s \in VerifierInputs}

InitPrompt ==
    /\ state \in PromptInputs
    /\ initial = state
    /\ cfg \in Configs
    /\ node = "writer_call"
    /\ HistoryInit
    /\ MergeIdle

WriterPromptCall ==
    /\ node = "writer_call"
    /\ Len(prompts) < MaxAttempts
    /\ prompts' = Append(prompts, writer_prompt(state))
    /\ \E u \in writer_agent(state) :
          \E o \in VerifierOutcomes(GraphMerge(state, u), cfg) :
             /\ o.update.routing_decision = "regenerate"
             /\ state' = [GraphMerge(GraphMerge(state, u), o.update)
                            EXCEPT !.reflection_count = @ + 1]
    /\ node' = IF Len(prompts') = MaxAttempts THEN "writer_returned" ELSE node
    /\ UNCHANGED <<cfg, steps, result, routed, lastNode, lastDecision,
                   rcAtVerifier, regenCount, runs, vres, errorReturned,
                   ranAfterError, endedVia, prevTrace, initial, mergeArgs,
                   merged>>

SpecPrompt == InitPrompt /\ [][WriterPromptCall]_vars

(***************************************************************************)
(* Properties                                                              *)
(***************************************************************************)
\* C1: every run reaches END (through done or error_handler) after finitely
\* many stage executions, without the host recursion limit cutting it off:
\* graph.invoke never runs out of supersteps before the graph reached END.
C1_RunReachesEnd == ~(steps = RecursionLimit /\ node \in GraphNodes)

\* C2: the result handed to the caller never has both an empty
\* verified_report and an empty error_log.
C2_ReportOrError ==
    result.status /= "running" =>
        (result.verified_report /= "" \/ result.error_log /= <<>>)

\* a run that ended in the error handler: no report, an error entry
C2_Witness ==
    /\ result.status = "partial_success"
    /\ endedVia = "error_handler"
    /\ result.verified_report = ""
    /\ result.error_log /= <<>>

\* the priority order C3 states (rule 3: retrieved_chunks unset)
ClaimedRoute(s) ==
    IF s.routing_decision = "error" THEN "error_handler"
    ELSE IF s.ingested_text = "" THEN "ingestion_agent"
    ELSE IF s.retrieved_chunks.is_none THEN "rag_agent"
    ELSE IF s.routing_decision = "needs_research" THEN "research_agent"
    ELSE IF s.analysis_result = NoneVal THEN "analyst_agent"
    ELSE IF s.draft_report = "" THEN "writer_agent"
    ELSE IF s.verified_report = "" THEN "verifier_agent"
    ELSE "done"

\* C3: route_from_supervisor returns the target of the first matching rule
\* of the stated priority order (retrieval only when retrieved_chunks is
\* unset), one of the eight targets.
C3_RoutePriority ==
    node = "route_returned" =>
        /\ routed = ClaimedRoute(state)
        /\ routed \in GraphNodes \cup {"done"}

\* C4: once the retrieval stage has written the empty list back (attempted,
\* zero chunks), with text ingested, no error, no research request and no
\* analysis yet, the router returns the analysis stage, not retrieval.
C4_EmptyRetrievalNotRetried ==
    ( /\ lastNode = "supervisor"
      /\ runs["rag_agent"] >= 1
      /\ state.retrieved_chunks = PyList(<<>>)
      /\ state.ingested_text /= ""
      /\ state.routing_decision \notin {"error", "needs_research"}
      /\ state.analysis_result = NoneVal )
    => routed = "analyst_agent"

\* C5: once a stage agent has returned routing_decision error, the
\* supervisor leaves it unchanged, the router returns error_handler, no
\* stage agent executes again, and the run ends at END.
C5_ErrorStopsRun ==
    errorReturned =>
        /\ state.routing_decision = "error"
        /\ ~ranAfterError
        /\ (lastNode = "supervisor" => routed = "error_handler")
        /\ (result.status /= "running" => endedVia = "error_handler")

\* the part of C5 that does not depend on the run being cut off
ErrorShortCircuit ==
    errorReturned =>
        /\ state.routing_decision = "error"
        /\ ~ranAfterError
        /\ node \in {"supervisor", "error_handler", "END"}
        /\ (lastNode = "supervisor" => routed = "error_handler")

\* C6: after the verifier scored a non-blank draft, the decision is
\* regenerate iff (score below min_faithfulness_score or insufficient
\* claims) and reflection_count < max_reflection_loops; otherwise done.
C6_RegenerateRule ==
    (lastNode = "verifier_agent" /\ vres.path = "scored") =>
        /\ lastDecision \in {"regenerate", "done"}
        /\ lastDecision = "regenerate" <=>
              /\ \/ FracLess(state.faithfulness_score, cfg.min_faithfulness_score)
                 \/ vres.faith.reject_for_insufficient_claims
              /\ rcAtVerifier < cfg.max_reflection_loops

\* a draft scored below the threshold is accepted: no reflection budget left
C6_Witness ==
    /\ lastNode = "verifier_agent"
    /\ vres.path = "scored"
    /\ vres.faith.claim_count >= MinClaimsHard
    /\ FracLess(state.faithfulness_score, cfg.min_faithfulness_score)
    /\ rcAtVerifier >= cfg.max_reflection_loops
    /\ rcAtVerifier > 0
    /\ lastDecision = "done"

\* C7: reflection_count grows by exactly 1 at each regenerate decision and
\* is changed by no other step: after k regenerate decisions it equals k.
C7_ReflectionCountCounts == state.reflection_count = regenCount

\* C8: after a regenerate decision of the verifier the graph executes the
\* writer next; the run does not end on a regenerate decision.
C8_RegenerateReentersWriter ==
    (lastNode = "verifier_agent" /\ lastDecision = "regenerate") =>
        node = "writer_agent"

\* C9: with reflection_count >= max_reflection_loops the verifier decides
\* done and should_reflect returns done, whatever the score and the
\* insufficient-claims signal; the writer runs at most
\* max_reflection_loops + 1 times.
C9_BudgetExhaustedAccepts ==
    /\ (lastNode = "verifier_agent" /\ rcAtVerifier >= cfg.max_reflection_loops) =>
          (lastDecision = "done" /\ node = "END")
    /\ runs["writer_agent"] <= cfg.max_reflection_loops + 1

\* the writer ran, then the verifier found too few claims with the budget used up
C9_Witness ==
    /\ lastNode = "verifier_agent"
    /\ runs["writer_agent"] = 1
    /\ rcAtVerifier >= cfg.max_reflection_loops
    /\ cfg.max_reflection_loops > 0
    /\ vres.path = "scored"
    /\ vres.faith.reject_for_insufficient_claims
    /\ lastDecision = "done"

\* C10: verified_report is non-empty only if the most recent verifier
\* decision was accept (done); a regenerate decision leaves it empty.
C10_VerifiedOnlyOnAccept ==
    state.verified_report /= "" => lastDecision = "done"

\* C11: every update a verifier invocation returns (empty draft, scored,
\* insufficient claims, extraction failure, the verifier's own exception)
\* has hallucination_score + faithfulness_score = 1, both within [0, 1].
C11_ScoresComplement ==
    lastNode = "verifier_agent" =>
        LET f == state.faithfulness_score
            h == state.hallucination_score
        IN  /\ f.den > 0 /\ h.den > 0
            /\ 0 <= f.num /\ f.num <= f.den
            /\ 0 <= h.num /\ h.num <= h.den
            /\ h.num * f.den + f.num * h.den = f.den * h.den

\* a scored draft with some claims supported and some not
C11_Witness ==
    /\ lastNode = "verifier_agent"
    /\ vres.scorer = "faithfulness"
    /\ 0 < state.faithfulness_score.num
    /\ state.faithfulness_score.num < state.faithfulness_score.den
    /\ 2 * state.faithfulness_score.num /= state.faithfulness_score.den

\* C12: for an extraction result with n claims and the configured
\* min_claims_to_verify = m, the insufficient-claims signal is set iff
\* n < m; it is reported apart from the score; when it is set and
\* reflection_count < max_reflection_loops the decision is regenerate.
C12_InsufficientIffBelowConfigured ==
    ( /\ lastNode = "verifier_agent"
      /\ vres.scorer \in {"insufficient", "faithfulness"} ) =>
        /\ vres.faith.reject_for_insufficient_claims
              <=> (Len(vres.verdicts) < cfg.min_claims_to_verify)
        /\ ( /\ vres.faith.reject_for_insufficient_claims
             /\ rcAtVerifier < cfg.max_reflection_loops )
           => lastDecision = "regenerate"

\* C13: when the claim count passes the minimum-sample guard,
\* faithfulness_score = (claims with verdict 1) / (claims extracted); 10
\* claims of which 9 are supported score 0.9 and, with threshold 0.85, the
\* decision is accept.
C13_ScoreIsSupportedRatio ==
    (lastNode = "verifier_agent" /\ vres.scorer = "faithfulness") =>
        LET n == Len(vres.verdicts)
            k == Cardinality({i \in 1..n : vres.verdicts[i] = 1})
            f == state.faithfulness_score
        IN  /\ n > 0
            /\ f.num * n = k * f.den
            /\ (n = 10 /\ k = 9 /\ cfg.min_faithfulness_score = Frac(17, 20)) =>
                  /\ f.num * 10 = 9 * f.den
                  /\ lastDecision = "done"

\* 10 claims, 9 supported, threshold 0.85, reflection budget left: accepted
C13_Witness ==
    /\ lastNode = "verifier_agent"
    /\ vres.scorer = "faithfulness"
    /\ Len(vres.verdicts) = 10
    /\ state.faithfulness_score = Frac(9, 10)
    /\ cfg.min_faithfulness_score = Frac(17, 20)
    /\ rcAtVerifier < cfg.max_reflection_loops
    /\ lastDecision = "done"

\* C14: with an empty or blank draft_report, at any reflection_count, the
\* verifier returns faithfulness_score 0.0, decision done and a non-empty
\* placeholder verified_report; it never decides regenerate.
C14_BlankDraftAccepted ==
    (lastNode = "verifier_agent" /\ state.draft_report \in {"", " "}) =>
        /\ state.faithfulness_score.num = 0
        /\ lastDecision = "done"
        /\ state.routing_decision = "done"
        /\ state.verified_report \notin {"", " "}
        /\ state.verified_report /= state.draft_report

\* a blank draft verified while reflection budget is left
C14_Witness ==
    /\ lastNode = "verifier_agent"
    /\ state.draft_report = " "
    /\ rcAtVerifier < cfg.max_reflection_loops
    /\ vres.path = "empty"
    /\ lastDecision = "done"
    /\ state.verified_report = "Analysis could not be completed for this document."

\* C15: when claim extraction fails (the judge call raises or its response
\* cannot be parsed), the scorer returns 0.5 with the insufficient-claims
\* signal not set; the verifier does not set routing_decision to error,
\* adds no error entry, and reaches a decision (regenerate or done).
C15_ExtractionFailureNeutral ==
    (lastNode = "verifier_agent" /\ vres.scorer = "extraction_failed") =>
        /\ 2 * vres.faith.score.num = vres.faith.score.den
        /\ 2 * state.faithfulness_score.num = state.faithfulness_score.den
        /\ ~vres.faith.reject_for_insufficient_claims
        /\ state.routing_decision /= "error"
        /\ ~errorReturned
        /\ state.error_log = <<>>
        /\ lastDecision \in {"regenerate", "done"}
        /\ lastDecision = state.routing_decision

\* claim extraction failed on a non-blank draft with source chunks
C15_Witness ==
    /\ lastNode = "verifier_agent"
    /\ vres.scorer = "extraction_failed"
    /\ Strip(state.draft_report) /= ""
    /\ ListTruthy(state.retrieved_chunks)
    /\ lastDecision = "regenerate"

\* s is a prefix of t
IsPrefix(s, t) == Len(s) <= Len(t) /\ \A i \in 1..Len(s) : t[i] = s[i]

\* C16: for every state s and partial update u (any subset of fields, any
\* value under agent_trace or error_log), the agent_trace of
\* merge_state_update(s, u) is a list with s.agent_trace as a prefix; the
\* same for error_log.
C16_MergeKeepsLogPrefix ==
    node = "merge_returned" =>
        \A k \in AppendFields :
            /\ IsInstanceList(merged.value[k])
            /\ IsPrefix(mergeArgs.current[k].items, merged.value[k].items)

\* C17: merge_state_update(s, u) gives each field other than agent_trace
\* and error_log the value of u when u holds it and the value of s
\* otherwise; the empty update returns a state equal to s; s is not
\* modified by the call.
C17_MergeOverwritesOrKeeps ==
    node = "merge_returned" =>
        LET s == mergeArgs.current
            u == mergeArgs.update
        IN  /\ \A f \in Fields \ AppendFields :
                  merged.value[f] = IF f \in DOMAIN u THEN u[f] ELSE s[f]
            /\ (DOMAIN u = {}) => merged.value = s
            /\ merged.current = s

\* an update that overwrites one field and leaves the others out
C17_Witness ==
    /\ node = "merge_returned"
    /\ DOMAIN mergeArgs.update = {"draft_report"}
    /\ mergeArgs.current.draft_report /= mergeArgs.update.draft_report
    /\ merged.value.draft_report = "raw response text"
    /\ merged.value.routing_decision = "continue"

\* C18: an update holding a key that is no declared field of the pipeline
\* state is rejected by the merge (an error outcome, the state unchanged):
\* the key is never added to the state.
C18_UnknownKeyRejected ==
    ( /\ node = "merge_returned"
      /\ ~(DOMAIN mergeArgs.update \subseteq Fields) ) =>
        /\ merged.status = "error"
        /\ DOMAIN merged.value \subseteq Fields

\* C19: when the ceiling on router/stage iterations is reached the run ends
\* without an error: the caller receives the latest verified or draft
\* report with the final faithfulness score, not a failed result.
C19_CeilingReturnsBestReport ==
    ( /\ steps = RecursionLimit
      /\ node \in GraphNodes
      /\ result.status /= "running" ) =>
        /\ result.status /= "failed"
        /\ result.verified_report =
              (IF state.verified_report /= "" THEN state.verified_report
               ELSE state.draft_report)
        /\ result.faithfulness_score = state.faithfulness_score
        /\ result.error_log = state.error_log

IdentifierFields == {"query", "uploaded_file_path", "file_format", "session_id"}

\* C20: in every reachable state query, uploaded_file_path, file_format and
\* session_id have the value the driver gave them in the initial state.
C20_IdentifiersImmutable ==
    \A f \in IdentifierFields : state[f] = initial[f]

\* C20 (amended): query, uploaded_file_path and session_id keep their
\* initial value; file_format keeps it until ingestion succeeds and is
\* from then on the lower-cased extension of uploaded_file_path.
C20_IdentifiersImmutableButFormat ==
    /\ \A f \in IdentifierFields \ {"file_format"} : state[f] = initial[f]
    /\ state.file_format =
          IF state.ingested_text = "" THEN initial.file_format
          ELSE FormatOf(initial.uploaded_file_path)

\* ingestion succeeded and later stages ran
C20_Witness ==
    /\ runs["ingestion_agent"] = 1
    /\ state.ingested_text /= ""
    /\ state.file_format = "pdf"
    /\ initial.file_format = ""
    /\ runs["writer_agent"] >= 1

\* C21: in every reachable state of a run, routing_decision = error implies
\* a non-empty error_log: each ingestion or retrieval update that sets
\* routing_decision to error also appends an error_log entry.
C21_ErrorHasLogEntry ==
    (state.routing_decision = "error" \/ errorReturned) => state.error_log /= <<>>

\* retrieval failed after a successful ingestion
C21_Witness ==
    /\ state.routing_decision = "error"
    /\ lastNode = "rag_agent"
    /\ state.ingested_text /= ""
    /\ state.error_log /= <<>>

\* the trace entries the except branches of research, analysis, writer and
\* verifier write
ExceptionEntries == {"research_agent: error", "analyst_agent: error",
                     "writer_agent: error", "verifier_agent: error"}

InTrace(entries) ==
    \E i \in 1..Len(state.agent_trace) : state.agent_trace[i] \in entries

\* some stage agent of the run has caught an exception
CaughtException ==
    \/ InTrace(ExceptionEntries)
    \/ vres.scorer = "extraction_failed"
    \/ \E i \in 1..Len(state.error_log) :
          state.error_log[i] \in {"Ingestion failed", "RAG pipeline failed"}

\* C22: a run in which a stage agent caught an exception does not end with
\* an empty error_log and is not reported with status success.
C22_CaughtExceptionLogged ==
    (result.status /= "running" /\ CaughtException) =>
        /\ result.error_log /= <<>>
        /\ result.status /= "success"

\* C23: after the research or the analysis stage failed internally, the
\* update is degraded (analysis_result set) with no routing_decision error,
\* and the run proceeds to the writer and the verifier, not to the error
\* handler.
C23_DegradedRunReachesVerifier ==
    LET failed == InTrace({"research_agent: error", "analyst_agent: error"})
    IN  /\ failed => (state.routing_decision /= "error" /\ ~errorReturned)
        /\ InTrace({"analyst_agent: error"}) => state.analysis_result /= NoneVal
        /\ (failed /\ result.status /= "running") =>
              /\ runs["writer_agent"] >= 1
              /\ runs["verifier_agent"] >= 1
              /\ runs["error_handler"] = 0

\* the part of C23 that does not depend on the run being cut off: a failed
\* research or analysis stage leaves no error behind and a set analysis_result
DegradedNotError ==
    /\ InTrace({"research_agent: error", "analyst_agent: error"}) =>
          (state.routing_decision /= "error" /\ ~errorReturned
           /\ runs["error_handler"] = 0)
    /\ InTrace({"analyst_agent: error"}) => state.analysis_result /= NoneVal

\* C24: for every state and every outcome of the completion call, the
\* update of writer_agent has a non-empty draft_report and a
\* routing_decision other than error, and the verifier is the next node.
C24_WriterAlwaysDrafts ==
    lastNode = "writer_agent" =>
        /\ state.draft_report /= ""
        /\ state.routing_decision = "verifier"
        /\ ~errorReturned
        /\ node = "verifier_agent"

\* the completion call raised: the except branch's placeholder draft
C24_Witness ==
    /\ lastNode = "writer_agent"
    /\ state.agent_trace[Len(state.agent_trace)] = "writer_agent: error"
    /\ state.draft_report = "Error generating report"
    /\ node = "verifier_agent"

\* C25: the prompt of the writer depends on the reflection iteration: for
\* two states that differ only in reflection_count and in the report
\* fields a regeneration overwrites, the prompts submitted differ.
C25_PromptChangesOnRegenerate ==
    \A i \in 1..(Len(prompts) - 1) : prompts[i] /= prompts[i + 1]

\* C26: once ingested_text is non-empty the router does not return the
\* ingestion stage again in any later state of the run, and ingested_text
\* is written at most once (ingestion is its only writer).
C26_IngestionNotReentered ==
    state.ingested_text /= "" =>
        /\ node /= "ingestion_agent"
        /\ runs["ingestion_agent"] = 1
        /\ (lastNode = "supervisor" => routed /= "ingestion_agent")

\* retrieval ran twice after the one ingestion, and the router ran again
C26_Witness ==
    /\ state.ingested_text /= ""
    /\ runs["ingestion_agent"] = 1
    /\ runs["rag_agent"] >= 2
    /\ lastNode = "supervisor"
    /\ routed = "analyst_agent"

Stages == {"ingestion_agent", "rag_agent", "research_agent", "analyst_agent",
           "writer_agent", "verifier_agent"}

\* the node executed last is a stage agent and its update was merged (it
\* did not raise out of graph.invoke)
StageReturned ==
    /\ lastNode \in Stages
    /\ ~(endedVia = "exception" /\ steps < RecursionLimit)

C28_StagesRunOnce ==
    /\ \A n \in {"ingestion_agent", "rag_agent", "research_agent", "analyst_agent"} :
          runs[n] <= 1
    /\ runs["writer_agent"] <= 1 + regenCount
    /\ runs["verifier_agent"] <= 1 + regenCount

\* C29: a stage is entered only with its predecessors' outputs in the
\* merged state (retrieval: ingested_text; analysis: retrieval attempted;
\* writer: analysis_result; verifier: draft_report), and the nodes execute
\* one at a time: every superstep is the execution of exactly one node.
C29_StagePreconditions ==
    /\ (node = "rag_agent" \/ lastNode = "rag_agent") => state.ingested_text /= ""
    /\ (node = "analyst_agent" \/ lastNode = "analyst_agent") =>
          (runs["rag_agent"] >= 1 /\ ~state.retrieved_chunks.is_none)
    /\ (node = "writer_agent" \/ lastNode = "writer_agent") =>
          state.analysis_result /= NoneVal
    /\ (node = "verifier_agent" \/ lastNode = "verifier_agent") =>
          state.draft_report /= ""
    /\ steps = runs["supervisor"] + runs["ingestion_agent"] + runs["rag_agent"]
               + runs["research_agent"] + runs["analyst_agent"]
               + runs["writer_agent"] + runs["verifier_agent"]
               + runs["error_handler"]

\* the verifier is entered after ingestion, retrieval, analysis and writer
C29_Witness ==
    /\ node = "verifier_agent"
    /\ lastNode = "writer_agent"
    /\ runs["ingestion_agent"] = 1
    /\ runs["rag_agent"] >= 1
    /\ runs["analyst_agent"] = 1
    /\ state.draft_report /= ""

\* C30: a stage execution adds exactly its own entries to the merged
\* agent_trace and repeats no earlier entry: the trace is the trace before
\* the stage followed by the one entry the stage produced.
C30_TraceGrowsByOwnEntries ==
    StageReturned =>
        /\ Len(state.agent_trace) = Len(prevTrace) + 1
        /\ IsPrefix(prevTrace, state.agent_trace)

=============================================================================
